---------------------------- MODULE Spec2Model ----------------------------
(***************************************************************************)
(* SymphCord: chat messages -> note events -> WAV clip.                    *)
(*                                                                         *)
(* The model covers bot/music/note_mapper.py (notes_from_messages and its  *)
(* helpers), bot/music/synthesis.py (_scale_events, render_notes_to_wav    *)
(* and the choice between the SoundFont and the oscillator path) and the   *)
(* /compose command of bot/cogs/composer.py.                               *)
(*                                                                         *)
(* Numbers.  Python floats are modelled as exact rationals (records        *)
(* [num, den] in lowest terms, den > 0); IEEE rounding is not modelled.    *)
(* Levels in dBFS are integers in tenths of a dB, with NegInf for silence. *)
(* A frequency 440 * 2^((m-69)/12) is carried as its semitone number m;    *)
(* every frequency the program builds has this form.                       *)
(***************************************************************************)
EXTENDS Integers, Sequences, FiniteSets, TLC

(***************************************************************************)
(* Exact rational arithmetic                                               *)
(***************************************************************************)
Abs(x) == IF x < 0 THEN -x ELSE x

\* Euclid's algorithm; x and y are the values of a and b
RECURSIVE GCD(_, _)
GCD(a, b) ==
    CHOOSE g \in {IF y = 0 THEN x ELSE GCD(y, x % y) : x \in {a}, y \in {b}} : TRUE

\* n/d in lowest terms with a positive denominator (d # 0)
Rat(n, d) ==
    CHOOSE r \in {[num |-> s * (x \div g), den |-> s * (y \div g)] : s \in {IF d < 0 THEN -1 ELSE 1}, g \in {GCD(Abs(n), Abs(d))}, x \in {n}, y \in {d}} : TRUE

RInt(n) == [num |-> n, den |-> 1]

RZero == RInt(0)

RNeg(x) == [num |-> -x.num, den |-> x.den]

RAdd(x, y) ==
    CHOOSE r \in {Rat(a.num * (b.den \div GCD(a.den, b.den)) + b.num * (a.den \div GCD(a.den, b.den)), (a.den \div GCD(a.den, b.den)) * b.den) : a \in {x}, b \in {y}} : TRUE

RSub(x, y) == RAdd(x, RNeg(y))

\* cross-reduced product: the factors multiplied are those of the result
RMul(x, y) ==
    CHOOSE r \in {[num |-> (a.num \div GCD(Abs(a.num), b.den)) * (b.num \div GCD(Abs(b.num), a.den)), den |-> (a.den \div GCD(Abs(b.num), a.den)) * (b.den \div GCD(Abs(a.num), b.den))] : a \in {x}, b \in {y}} : TRUE

\* x / y, y # 0
RDiv(x, y) ==
    RMul(x, IF y.num < 0 THEN [num |-> -y.den, den |-> -y.num]
                         ELSE [num |-> y.den, den |-> y.num])

\* floor of a/b for b > 0
FloorDiv(a, b) == a \div b

\* a/b < c/d for b, d > 0, by continued fractions (no cross products)
RECURSIVE FracLt(_, _, _, _)
FracLt(a, b, c, d) ==
    \E qa \in {FloorDiv(a, b)}, qc \in {FloorDiv(c, d)} :
        \E ra \in {a - qa * b}, rc \in {c - qc * d} :
            IF qa # qc THEN qa < qc
            ELSE IF rc = 0 THEN FALSE
            ELSE IF ra = 0 THEN TRUE
            ELSE FracLt(d, rc, b, ra)

RLt(x, y) == \E a \in {x}, b \in {y} : FracLt(a.num, a.den, b.num, b.den)

RLe(x, y) == ~RLt(y, x)

RMax(x, y) == IF RLt(x, y) THEN y ELSE x

RMin(x, y) == IF RLt(y, x) THEN y ELSE x

\* max(...) over a non-empty sequence
RMaxOfSeq(s) ==
    CHOOSE m \in UNION {{v \in values : \A w \in values : RLe(w, v)} : values \in {{s[i] : i \in 1..Len(s)}}} : TRUE


(***************************************************************************)
(* bot/music/types.py                                                      *)
(***************************************************************************)
InstrumentWave ==
    {"sine", "square", "sawtooth", "triangle", "warm", "bell", "pulse",
     "glow", "harp", "celesta", "choir"}

\* the dataclass constructor; frequency is a semitone number
NoteEvent(start, duration, frequency, amplitude, instrument) ==
    [start |-> start, duration |-> duration, frequency |-> frequency,
     amplitude |-> amplitude, instrument |-> instrument]

\* note.start + note.duration
NoteEnd(note) == RAdd(note.start, note.duration)

\* max(note.start + note.duration for note in event_list), event_list # <<>>
TotalLength(event_list) ==
    RMaxOfSeq([i \in 1..Len(event_list) |-> NoteEnd(event_list[i])])

(***************************************************************************)
(* bot/music/synthesis.py: _scale_events                                   *)
(***************************************************************************)
\* the base length after the guard of lines 277-278
ScaleBaseLength(event_list, min_duration) ==
    LET raw == TotalLength(event_list)
    IN  IF RLe(raw, RZero) THEN min_duration ELSE raw

\* lines 280-282: both assignments compute the same clamp
ScaleTarget(base_length, min_duration, max_duration) ==
    LET target == RMax(min_duration, RMin(base_length, max_duration))
    IN  IF RLt(base_length, min_duration) \/ RLt(max_duration, base_length)
        THEN RMax(min_duration, RMin(max_duration, base_length))
        ELSE target

\* faulty variant: the target is not clamped from below
ScaleFactorNoFloor(base_length, min_duration, max_duration) ==
    IF base_length = RZero THEN RInt(1)
    ELSE RDiv(RMin(base_length, max_duration), base_length)

\* faulty variant: always stretch or shrink to max_duration
ScaleFactorToMax(base_length, min_duration, max_duration) ==
    IF base_length = RZero THEN RInt(1)
    ELSE RDiv(max_duration, base_length)

\* lines 284-287
ScaleFactor(base_length, min_duration, max_duration) ==
    IF base_length = RZero THEN RInt(1)
    ELSE RDiv(ScaleTarget(base_length, min_duration, max_duration), base_length)

\* faulty variant: the pitch is scaled with the time axis, as resampling does
ScaleNoteResampled(note, scale) ==
    NoteEvent(RMul(note.start, scale), RMul(note.duration, scale),
              (note.frequency * scale.den) \div (IF scale.num = 0 THEN 1 ELSE scale.num),
              note.amplitude, note.instrument)

\* lines 289-298
ScaleNote(note, scale) ==
    NoteEvent(RMul(note.start, scale), RMul(note.duration, scale),
              note.frequency, note.amplitude, note.instrument)

\* lines 300-301: the result pair
ScaledResult(scaled_events) ==
    [events |-> scaled_events, length |-> TotalLength(scaled_events)]

\* lines 289-301
ScaledBy(event_list, scale) ==
    ScaledResult([i \in 1..Len(event_list) |-> ScaleNote(event_list[i], scale)])

\* _scale_events(events, min_duration, max_duration) -> (scaled, final_length)
ScaleEvents(events, min_duration, max_duration) ==
    IF events = <<>> THEN [events |-> <<>>, length |-> RZero]
    ELSE CHOOSE scaled \in {ScaledBy(events, scale) : scale \in {ScaleFactor(base_length, min_duration, max_duration) : base_length \in {ScaleBaseLength(events, min_duration)}}} : TRUE

(***************************************************************************)
(* bot/music/note_mapper.py: scale table and text features                 *)
(* A message is a record [content, bot, author_id, webhook_id, is_system,  *)
(* created_at]; content is the sequence of its character codes (ASCII),    *)
(* webhook_id is <<>> for None or <<id>>, is_system is what msg.is_system()*)
(* does: "yes", "no" or "TypeError"; created_at is in seconds.             *)
(***************************************************************************)
MAJOR_SCALE_STEPS == <<0, 2, 4, 7, 9, 11>>

ROOT_MIDI == 62

Octaves == 3

SCALE_MIDI_NOTES ==
    [k \in 1..(Octaves * Len(MAJOR_SCALE_STEPS)) |->
        ROOT_MIDI + ((k - 1) \div Len(MAJOR_SCALE_STEPS)) * 12
                  + MAJOR_SCALE_STEPS[((k - 1) % Len(MAJOR_SCALE_STEPS)) + 1]]

\* len(SCALE_MIDI_NOTES)
TotalNotes == Len(SCALE_MIDI_NOTES)

\* SCALE_MIDI_NOTES[idx] with Python's 0-based index
ScaleMidiAt(idx) == SCALE_MIDI_NOTES[idx + 1]

LowestMidi == 50

\* 440 * 2^((m - 69) / 12) in hundredths of a Hz, m = LowestMidi .. LowestMidi + 59
HzTable ==
    <<14683, 15556, 16481, 17461, 18500, 19600, 20765, 22000, 23308, 24694,
      26163, 27718, 29366, 31113, 32963, 34923, 36999, 39200, 41530, 44000,
      46616, 49388, 52325, 55437, 58733, 62225, 65926, 69846, 73999, 78399,
      83061, 88000, 93233, 98777, 104650, 110873, 117466, 124451, 131851,
      139691, 147998, 156798, 166122, 176000, 186466, 197553, 209300, 221746,
      234932, 248902, 263702, 279383, 295996, 313596, 332244, 352000, 372931,
      395107, 418601, 443492>>

\* midi_to_frequency
MidiToFrequency(midi_note) == HzTable[midi_note - LowestMidi + 1]

\* the semitone number of a frequency of the table
SemitoneOf(frequency) ==
    CHOOSE m \in LowestMidi..(LowestMidi + Len(HzTable) - 1) :
        MidiToFrequency(m) = frequency

\* frequency * 2^(semitone_shift / 12)
ShiftFrequency(frequency, semitone_shift) ==
    MidiToFrequency(SemitoneOf(frequency) + semitone_shift)

\* min(..., key=lambda freq: abs(freq - target)) over the scale table, first
\* minimum in table order; target = num / den
RECURSIVE NearestFrom(_, _, _, _)
NearestFrom(k, best, num, den) ==
    IF k > TotalNotes THEN best
    ELSE LET f == MidiToFrequency(SCALE_MIDI_NOTES[k])
         IN  IF Abs(f * den - num) < Abs(best * den - num)
             THEN NearestFrom(k + 1, f, num, den)
             ELSE NearestFrom(k + 1, best, num, den)

NearestScaleFrequency(num, den) ==
    NearestFrom(2, MidiToFrequency(SCALE_MIDI_NOTES[1]), num, den)

IsUpper(c) == c \in 65..90

IsLower(c) == c \in 97..122

IsDigit(c) == c \in 48..57

IsAlnum(c) == IsUpper(c) \/ IsLower(c) \/ IsDigit(c)

\* string.punctuation
IsPunct(c) == c \in (33..47) \cup (58..64) \cup (91..96) \cup (123..126)

IsSpace(c) == c \in (9..13) \cup (28..32)

\* c.lower() in "aeiou"
IsVowel(c) == c \in {97, 101, 105, 111, 117, 65, 69, 73, 79, 85}

RECURSIVE LStrip(_)
LStrip(s) == IF s # <<>> /\ IsSpace(s[1]) THEN LStrip(Tail(s)) ELSE s

RECURSIVE RStrip(_)
RStrip(s) ==
    IF s # <<>> /\ IsSpace(s[Len(s)])
    THEN RStrip(SubSeq(s, 1, Len(s) - 1)) ELSE s

\* str.strip()
Strip(s) == RStrip(LStrip(s))

CountUpper(s) == Cardinality({i \in 1..Len(s) : IsUpper(s[i])})

CountPunct(s) == Cardinality({i \in 1..Len(s) : IsPunct(s[i])})

CountVowels(s) == Cardinality({i \in 1..Len(s) : IsVowel(s[i])})

\* "".join(c for c in content if c.isalnum())
RECURSIVE OnlyAlnum(_)
OnlyAlnum(s) ==
    IF s = <<>> THEN <<>>
    ELSE IF IsAlnum(s[1]) THEN <<s[1]>> \o OnlyAlnum(Tail(s))
    ELSE OnlyAlnum(Tail(s))

RECURSIVE SumSeq(_)
SumSeq(s) == IF s = <<>> THEN 0 ELSE s[1] + SumSeq(Tail(s))

\* _caps_and_punct_weight: min((caps * 1.2 + punct) / len, 1.0)
CapsAndPunctWeight(text) ==
    IF text = <<>> THEN RZero
    ELSE RMin(Rat(6 * CountUpper(text) + 5 * CountPunct(text),
                  5 * Len(text)),
              RInt(1))

Palette == <<"warm", "sine", "bell", "glow", "harp", "celesta">>

\* _select_instrument
SelectInstrument(author_id) == Palette[(author_id % Len(Palette)) + 1]

\* _content_pitch_index
ContentPitchIndex(content) ==
    LET filtered == OnlyAlnum(content)
    IN  IF filtered = <<>> THEN TotalNotes \div 2
        ELSE (SumSeq(filtered) + 3 * CountVowels(filtered)) % TotalNotes

(***************************************************************************)
(* bot/music/note_mapper.py: the primary line                              *)
(* Optional values are <<>> (None) or <<v>>.                               *)
(***************************************************************************)
\* min(candidates, key=lambda val: abs(val - previous_idx)): first minimum
ClosestCandidate(base_idx, prev) ==
    LET c1 == base_idx
        c2 == base_idx + TotalNotes
        c3 == base_idx - TotalNotes
        m12 == IF Abs(c2 - prev) < Abs(c1 - prev) THEN c2 ELSE c1
    IN  IF Abs(c3 - prev) < Abs(m12 - prev) THEN c3 ELSE m12

Clamp(lo, hi, x) == IF x < lo THEN lo ELSE IF x > hi THEN hi ELSE x

\* faulty variant: the step is not limited to 2 positions
SmoothPitchIndexNoStepLimit(base_idx, previous_idx) ==
    IF previous_idx = <<>> THEN base_idx
    ELSE Clamp(0, TotalNotes - 1, ClosestCandidate(base_idx, previous_idx[1]))

\* faulty variant: the nearest candidate is not clamped to the table
SmoothPitchIndexUnclamped(base_idx, previous_idx) ==
    IF previous_idx = <<>> THEN base_idx
    ELSE
      LET prev == previous_idx[1]
          closest == ClosestCandidate(base_idx, prev)
      IN  IF Abs(closest - prev) > 2
          THEN IF closest > prev
               THEN (IF prev + 2 < TotalNotes - 1 THEN prev + 2 ELSE TotalNotes - 1)
               ELSE (IF prev - 2 > 0 THEN prev - 2 ELSE 0)
          ELSE closest

\* _smooth_pitch_index
SmoothPitchIndex(base_idx, previous_idx) ==
    IF previous_idx = <<>> THEN base_idx
    ELSE
      LET prev == previous_idx[1]
          closest == Clamp(0, TotalNotes - 1, ClosestCandidate(base_idx, prev))
      IN  IF Abs(closest - prev) > 2
          THEN IF closest > prev
               THEN (IF prev + 2 < TotalNotes - 1 THEN prev + 2 ELSE TotalNotes - 1)
               ELSE (IF prev - 2 > 0 THEN prev - 2 ELSE 0)
          ELSE closest

\* Python's round(): to the nearest integer, ties to the even one (x >= 0)
RoundHalfEven(x) ==
    LET f == x.num \div x.den
        twice == 2 * (x.num - f * x.den)
    IN  IF twice < x.den THEN f
        ELSE IF twice > x.den THEN f + 1
        ELSE IF f % 2 = 0 THEN f ELSE f + 1

\* _quantize
Quantize(delta_seconds, beat) ==
    IF RLe(delta_seconds, RZero) THEN RZero
    ELSE RMul(RInt(RoundHalfEven(RDiv(delta_seconds, beat))), beat)

\* faulty variant: a message of blanks gets no duration
NoteDurationNoneForBlank(content, beat) ==
    LET length == Len(Strip(content))
    IN  IF length <= 0 THEN RZero
        ELSE RAdd(RMul(beat, Rat(11, 10)),
                  RMul(RMin(Rat(length, 95), RInt(1)), RMul(beat, RInt(3))))

\* _note_duration
NoteDuration(content, beat) ==
    LET length == Len(Strip(content))
    IN  IF length <= 0 THEN beat
        ELSE RAdd(RMul(beat, Rat(11, 10)),
                  RMul(RMin(Rat(length, 95), RInt(1)), RMul(beat, RInt(3))))

\* faulty variant: no minimum gap after the previous note
SpacedStartNoMinGap(raw_start, previous_start, beat) ==
    IF previous_start = <<>> THEN raw_start
    ELSE
      LET previous_beats == RDiv(previous_start[1], beat)
          raw_beats == RDiv(raw_start, beat)
          start_beats ==
            IF RLt(Rat(5, 2), RSub(raw_beats, previous_beats))
            THEN RAdd(previous_beats, Rat(5, 2)) ELSE raw_beats
      IN  RMul(start_beats, beat)

\* _message_to_note, lines 115-125: the start after rhythmic spacing
SpacedStart(raw_start, previous_start, beat) ==
    IF previous_start = <<>> THEN raw_start
    ELSE
      LET previous_beats == RDiv(previous_start[1], beat)
          raw_beats == RDiv(raw_start, beat)
          min_gap_beats == RInt(1)
          max_gap_beats == Rat(5, 2)
          start_beats == RMax(raw_beats, RAdd(previous_beats, min_gap_beats))
          capped ==
            IF RLt(max_gap_beats, RSub(start_beats, previous_beats))
            THEN RAdd(previous_beats, max_gap_beats) ELSE start_beats
      IN  RMul(capped, beat)

\* _message_to_note -> (note, midi_idx, start)
MessageToNote(message, first_timestamp, beat, previous_idx, previous_start) ==
    LET content == Strip(message.content)
        base_idx == ContentPitchIndex(content)
        midi_idx == SmoothPitchIndex(base_idx, previous_idx)
        frequency == MidiToFrequency(ScaleMidiAt(midi_idx))
        intensity == CapsAndPunctWeight(content)
        amplitude == RAdd(Rat(28, 100), RMul(intensity, Rat(28, 100)))
        delta == RSub(message.created_at, first_timestamp)
        raw_start == Quantize(RMax(delta, RZero), beat)
        start == SpacedStart(raw_start, previous_start, beat)
    IN  [note |-> NoteEvent(start, NoteDuration(message.content, beat),
                            frequency, RMin(amplitude, Rat(9, 10)),
                            SelectInstrument(message.author_id)),
         message |-> message,
         midi_idx |-> midi_idx,
         base_idx |-> base_idx,
         start |-> start]

\* faulty variant: webhook messages are not dropped
KeepsMessageIgnoringWebhook(msg) ==
    /\ msg.content # <<>>
    /\ ~msg.bot
    /\ msg.is_system # "yes"

\* notes_from_messages, lines 209-223: the message survives the filter
KeepsMessage(msg) ==
    /\ msg.content # <<>>
    /\ ~msg.bot
    /\ ~(msg.webhook_id # <<>> /\ msg.webhook_id[1] # 0)
    /\ msg.is_system # "yes"

\* list.sort(key=lambda m: m.created_at) is stable: x goes after its equals
RECURSIVE InsertByCreatedAt(_, _)
InsertByCreatedAt(s, x) ==
    IF s = <<>> THEN <<x>>
    ELSE IF RLt(x.created_at, s[Len(s)].created_at)
         THEN Append(InsertByCreatedAt(SubSeq(s, 1, Len(s) - 1), x), s[Len(s)])
         ELSE Append(s, x)

RECURSIVE SortByCreatedAt(_)
SortByCreatedAt(s) ==
    IF s = <<>> THEN <<>>
    ELSE InsertByCreatedAt(SortByCreatedAt(SubSeq(s, 1, Len(s) - 1)), s[Len(s)])

\* sorted(filled, key=lambda n: n.start) is stable as well
RECURSIVE InsertByStart(_, _)
InsertByStart(s, x) ==
    IF s = <<>> THEN <<x>>
    ELSE IF RLt(x.start, s[Len(s)].start)
         THEN Append(InsertByStart(SubSeq(s, 1, Len(s) - 1), x), s[Len(s)])
         ELSE Append(s, x)

RECURSIVE SortByStart(_)
SortByStart(s) ==
    IF s = <<>> THEN <<>>
    ELSE InsertByStart(SortByStart(SubSeq(s, 1, Len(s) - 1)), s[Len(s)])

\* lines 208-223
RECURSIVE KeptMessages(_)
KeptMessages(messages) ==
    IF messages = <<>> THEN <<>>
    ELSE IF KeepsMessage(messages[1])
         THEN <<messages[1]>> \o KeptMessages(Tail(messages))
         ELSE KeptMessages(Tail(messages))

\* lines 208-227
FilteredMessages(messages) == SortByCreatedAt(KeptMessages(messages))

\* lines 230-241: the left-to-right fold; one step record per message
RECURSIVE PrimaryFold(_, _, _, _, _, _)
PrimaryFold(filtered, i, beat, previous_idx, previous_start, acc) ==
    IF i > Len(filtered) THEN acc
    ELSE LET step == MessageToNote(filtered[i], filtered[1].created_at, beat,
                                   previous_idx, previous_start)
         IN  PrimaryFold(filtered, i + 1, beat, <<step.midi_idx>>,
                         <<step.start>>, Append(acc, step))

PrimarySteps(messages, beat) ==
    PrimaryFold(FilteredMessages(messages), 1, beat, <<>>, <<>>, <<>>)

(***************************************************************************)
(* bot/music/note_mapper.py: harmonics, gap filler, pad                    *)
(***************************************************************************)
\* _harmonic_from
HarmonicFrom(note, semitone_shift, amplitude_scale, instrument) ==
    NoteEvent(note.start,
              RMul(note.duration, Rat(11, 10)),
              ShiftFrequency(note.frequency, semitone_shift),
              RMin(RMul(note.amplitude, amplitude_scale), Rat(55, 100)),
              instrument)

\* faulty variant: the +7 harmonic goes to the odd indices
LayersOfOddFifth(note, idx) ==
    <<note, HarmonicFrom(note, 4, Rat(45, 100), "celesta")>>
    \o (IF idx % 2 = 1 THEN <<HarmonicFrom(note, 7, Rat(34, 100), "sine")>> ELSE <<>>)
    \o (IF idx % 3 = 0 THEN <<HarmonicFrom(note, 12, Rat(24, 100), "glow")>> ELSE <<>>)

\* lines 244-250 for the primary note at 0-based index idx
LayersOf(note, idx) ==
    <<note, HarmonicFrom(note, 4, Rat(45, 100), "celesta")>>
    \o (IF idx % 2 = 0 THEN <<HarmonicFrom(note, 7, Rat(34, 100), "sine")>> ELSE <<>>)
    \o (IF idx % 3 = 0 THEN <<HarmonicFrom(note, 12, Rat(24, 100), "glow")>> ELSE <<>>)

RECURSIVE Layered(_, _)
Layered(events, i) ==
    IF i > Len(events) THEN <<>>
    ELSE LayersOf(events[i], i - 1) \o Layered(events, i + 1)

\* line 157-159: insert_start
FillerStart(prev, curr, beat) ==
    LET gap == RSub(curr.start, prev.start)
        earliest == RAdd(prev.start, RMul(beat, Rat(35, 100)))
        latest == RSub(curr.start, RMul(beat, Rat(35, 100)))
    IN  RMin(RMax(RAdd(prev.start, RMul(gap, Rat(55, 100))), earliest), latest)

\* faulty variant: every pair gets a filler, whatever the gap
NeedsFillerAnyGap(prev, curr, beat) ==
    RLe(RZero, RSub(curr.start, prev.start))

\* line 156: the pair gets a filler
NeedsFiller(prev, curr, beat) ==
    RLt(RMul(beat, Rat(14, 10)), RSub(curr.start, prev.start))

\* lines 157-170: the filler between prev and curr
Filler(prev, curr, beat) ==
    LET insert_start == FillerStart(prev, curr, beat)
        duration == RMax(RMin(RSub(curr.start, insert_start), RMul(beat, Rat(9, 10))),
                         RMul(beat, Rat(45, 100)))
    IN  NoteEvent(insert_start,
                  duration,
                  NearestScaleFrequency(9 * prev.frequency + 11 * curr.frequency, 20),
                  RMin(RMul(RMax(prev.amplitude, curr.amplitude), Rat(45, 100)),
                       Rat(45, 100)),
                  "glow")

\* lines 153-172: the list before the sort, and the fillers with their pair
RECURSIVE FillLoop(_, _, _, _)
FillLoop(notes, i, beat, acc) ==
    IF i >= Len(notes) THEN acc
    ELSE LET prev == notes[i]
             curr == notes[i + 1]
         IN  IF NeedsFiller(prev, curr, beat)
             THEN LET filler == Filler(prev, curr, beat)
                  IN  FillLoop(notes, i + 1, beat,
                        [filled |-> acc.filled \o <<filler, curr>>,
                         inserted |-> Append(acc.inserted,
                            [prev |-> prev, curr |-> curr, filler |-> filler])])
             ELSE FillLoop(notes, i + 1, beat,
                        [filled |-> Append(acc.filled, curr),
                         inserted |-> acc.inserted])

\* _fill_gaps, with the fillers it made
FillGapsTrace(notes, beat) ==
    IF notes = <<>> THEN [filled |-> <<>>, inserted |-> <<>>]
    ELSE LET r == FillLoop(notes, 1, beat, [filled |-> <<notes[1]>>, inserted |-> <<>>])
         IN  [filled |-> SortByStart(r.filled), inserted |-> r.inserted]

\* _fill_gaps
FillGaps(notes, beat) == FillGapsTrace(notes, beat).filled

\* min(notes, key=lambda n: n.frequency): the first minimum
RECURSIVE LowestNote(_)
LowestNote(notes) ==
    IF Len(notes) = 1 THEN notes[1]
    ELSE LET rest == LowestNote(Tail(notes))
         IN  IF rest.frequency < notes[1].frequency THEN rest ELSE notes[1]

\* _background_pad
BackgroundPad(notes) ==
    IF notes = <<>> THEN <<>>
    ELSE
      LET pad_frequency == LowestNote(notes).frequency
          pad_duration == RAdd(TotalLength(notes), Rat(3, 2))
          pad_amplitude == Rat(16, 100)
      IN  <<NoteEvent(RZero, pad_duration, pad_frequency, pad_amplitude, "warm"),
            NoteEvent(RZero, pad_duration, ShiftFrequency(pad_frequency, 12),
                      RMul(pad_amplitude, Rat(45, 100)), "celesta"),
            NoteEvent(RZero, pad_duration, ShiftFrequency(pad_frequency, -12),
                      RMul(pad_amplitude, Rat(4, 10)), "choir")>>

\* the primary line of notes_from_messages (events, line 241)
PrimaryLine(messages, beat) ==
    LET steps == PrimarySteps(messages, beat)
    IN  [i \in 1..Len(steps) |-> steps[i].note]

\* lines 253-254
WithPad(layered) == layered \o BackgroundPad(layered)

\* lines 224-225 and 243-254, from the primary line
NotesFromPrimary(primary, beat) ==
    IF primary = <<>> THEN <<>>
    ELSE WithPad(FillGaps(Layered(primary, 1), beat))

\* notes_from_messages
NotesFromMessages(messages, beat) ==
    NotesFromPrimary(PrimaryLine(messages, beat), beat)

(***************************************************************************)
(* bot/music/synthesis.py: render_notes_to_wav                             *)
(* config is what the module found at import: soundfont (SOUNDFONT_PATH is *)
(* set), midi_libs (numpy and pretty_midi import), fluidsynth.  The audio  *)
(* itself is outside the model: a rendering path either raises or gives a  *)
(* mix of some peak level.                                                 *)
(***************************************************************************)
\* max_dBFS of a silent segment: float("-inf")
NegInf == -1000000

\* the -1.5 dBFS of lines 332-333, in tenths of a dB
TargetPeak == -15

\* the 6.0 dB of line 335
SilenceBoost == 60

IsFinite(level) == level # NegInf

\* AudioSegment.apply_gain seen on the peak: samples saturate at full scale
ApplyGain(level, gain) ==
    IF ~IsFinite(level) THEN NegInf
    ELSE IF level + gain > 0 THEN 0 ELSE level + gain

\* faulty variant: gain is applied to mixes louder than the target
NormalizePeakAttenuating(peak_level) ==
    IF IsFinite(peak_level)
    THEN IF peak_level > TargetPeak
         THEN ApplyGain(peak_level, TargetPeak - peak_level)
         ELSE peak_level
    ELSE ApplyGain(peak_level, SilenceBoost)

\* lines 330-335: the peak after the normalization step
NormalizePeak(peak_level) ==
    IF IsFinite(peak_level)
    THEN IF peak_level < TargetPeak
         THEN ApplyGain(peak_level, TargetPeak - peak_level)
         ELSE peak_level
    ELSE ApplyGain(peak_level, SilenceBoost)

\* line 314
SamplerConfigured(config) == config.soundfont /\ config.midi_libs

\* line 216
SamplerAvailable(config) ==
    config.midi_libs /\ config.soundfont /\ config.fluidsynth

\* how the attempt of lines 314-318 goes; outcome is what fluidsynth does
SamplerResult(config, outcome) ==
    IF ~SamplerConfigured(config) THEN "skipped"
    ELSE IF ~SamplerAvailable(config) THEN "unavailable"
    ELSE IF outcome = "raise" THEN "raised"
    ELSE "ok"

\* faulty variant: only the RuntimeError of line 217 is caught
CaughtRuntimeErrorOnly(sampler) == sampler = "unavailable"

\* line 317: except Exception
Caught(sampler) == sampler \in {"unavailable", "raised"}

\* faulty variant: the empty list is not rejected
RejectsEventsNever(scaled_events) == FALSE

\* line 311
RejectsEvents(scaled_events) == scaled_events = <<>>

\* faulty variant: the sampler's buffer goes through lines 330-335 too
SamplerReturnNormalized(mix_peak) ==
    [peak |-> NormalizePeak(mix_peak), normalized |-> TRUE]

\* lines 316, 261-264: the sampler's own export is returned as it is
SamplerReturn(mix_peak) == [peak |-> mix_peak, normalized |-> FALSE]

\* lines 330-340
OscillatorReturn(mix_peak) ==
    [peak |-> NormalizePeak(mix_peak), normalized |-> TRUE]

RenderResult(status, error, path, sampler, oscillator, scaled, mix_peak, out) ==
    [status |-> status, error |-> error, path |-> path,
     sampler |-> sampler, oscillator |-> oscillator,
     scaled |-> scaled.events, duration |-> scaled.length,
     mix_peak |-> mix_peak, peak |-> out.peak, normalized |-> out.normalized]

NoAudio == [peak |-> NegInf, normalized |-> FALSE]

\* lines 311-340 on the scaled events; sampler is how the attempt of lines
\* 314-318 goes, oscillator_outcome is "ok" or "raise", mix_peak the peak
\* of the audio that the path that ran has produced
RenderScaled(scaled, sampler, oscillator_outcome, mix_peak) ==
        IF RejectsEvents(scaled.events)
        THEN RenderResult("error", "No events to render.", "none",
                          "skipped", "skipped", scaled, NegInf, NoAudio)
        ELSE IF sampler = "ok"
        THEN RenderResult("ok", "", "sampler", sampler, "skipped", scaled,
                          mix_peak, SamplerReturn(mix_peak))
        ELSE IF sampler # "skipped" /\ ~Caught(sampler)
        THEN RenderResult("error", "sampler", "sampler", sampler, "skipped",
                          scaled, NegInf, NoAudio)
        ELSE IF oscillator_outcome = "raise"
        THEN RenderResult("error", "oscillator", "oscillator", sampler,
                          "raised", scaled, NegInf, NoAudio)
        ELSE RenderResult("ok", "", "oscillator", sampler, "ok", scaled,
                          mix_peak, OscillatorReturn(mix_peak))

\* render_notes_to_wav
RenderNotesToWav(events, min_duration, max_duration, config, sampler_outcome, oscillator_outcome, mix_peak) ==
    RenderScaled(ScaleEvents(events, min_duration, max_duration),
                 SamplerResult(config, sampler_outcome),
                 oscillator_outcome, mix_peak)

(***************************************************************************)
(* bot/cogs/composer.py: /compose                                          *)
(***************************************************************************)
\* line 31
NothingToCompose(events) == events = <<>>

(***************************************************************************)
(* State                                                                   *)
(***************************************************************************)
VARIABLES
    scale_h,    \* a call of _scale_events, and a second call on its result
    smooth_h,   \* the fold of _smooth_pitch_index over raw pitch indices
    gaps_h,     \* a call of _fill_gaps
    mapper_h,   \* a call of notes_from_messages
    cfg,        \* what synthesis.py found at import
    caller,     \* "compose": a /compose interaction; "api": a direct call
    channel,    \* interaction.channel: "none", "text" or "other"
    pc,         \* where the caller is
    history,    \* what _fetch_history returned
    events,     \* what notes_from_messages returned to compose
    call,       \* <<>> or <<arguments of the running render_notes_to_wav>>
    result,     \* <<>> or <<what render_notes_to_wav did>>
    responses,  \* interaction.response calls
    followups,  \* interaction.followup.send calls
    loop        \* two /compose interactions on one event loop, their worker
                \* threads and the objects the interpreter has allocated

harness == <<scale_h, smooth_h, gaps_h, mapper_h>>

program == <<cfg, caller, channel, pc, history, events, call, result,
             responses, followups, loop>>

vars == <<harness, program>>

\* the program is not running
ProgramOff ==
    /\ cfg = [soundfont |-> FALSE, midi_libs |-> FALSE, fluidsynth |-> FALSE]
    /\ caller = "none"
    /\ channel = "none"
    /\ pc = "off"
    /\ history = <<>>
    /\ events = <<>>
    /\ call = <<>>
    /\ result = <<>>
    /\ responses = <<>>
    /\ followups = <<>>
    /\ loop = [pc |-> "off"]

Off == [pc |-> "off"]

\* sequences over S of length lo..hi
SeqsOf(S, lo, hi) == UNION {[1..k -> S] : k \in lo..hi}

(***************************************************************************)
(* _scale_events applied once and once more                                *)
(***************************************************************************)
MaxScaleNotes == 2

ScaleStarts == {RZero, Rat(1, 2), RInt(3)}

ScaleDurations == {Rat(1, 2), RInt(40)}

\* well-formed notes: start >= 0, duration > 0
ScaleNotes ==
    {NoteEvent(st, du, MidiToFrequency(ROOT_MIDI), Rat(28, 100), "warm") :
        st \in ScaleStarts, du \in ScaleDurations}
    \cup {NoteEvent(RInt(1), Rat(5, 2), MidiToFrequency(ROOT_MIDI + 7),
                    Rat(9, 10), "glow")}

ScaleInputs == SeqsOf(ScaleNotes, 0, MaxScaleNotes)

\* <<min_duration, max_duration>> with 0 <= min <= max; <<15, 30>> are the
\* defaults of render_notes_to_wav and <<20, 35>> what /compose passes
ScaleBounds ==
    {<<RZero, RZero>>, <<RInt(2), RInt(4)>>, <<RInt(4), RInt(4)>>,
     <<Rat(1, 2), Rat(7, 2)>>, <<RInt(15), RInt(30)>>, <<RInt(20), RInt(35)>>}

InitScale ==
    /\ scale_h \in {[pc |-> "input", events |-> e, min |-> b[1], max |-> b[2],
                     once |-> <<>>, twice |-> <<>>] :
                        e \in ScaleInputs, b \in ScaleBounds}
    /\ smooth_h = Off
    /\ gaps_h = Off
    /\ mapper_h = Off
    /\ ProgramOff

ScaleOnce ==
    /\ scale_h.pc = "input"
    /\ scale_h' = [scale_h EXCEPT
            !.pc = "once",
            !.once = <<ScaleEvents(scale_h.events, scale_h.min, scale_h.max)>>]
    /\ UNCHANGED <<smooth_h, gaps_h, mapper_h, program>>

ScaleAgain ==
    /\ scale_h.pc = "once"
    /\ scale_h' = [scale_h EXCEPT
            !.pc = "twice",
            !.twice = <<ScaleEvents(scale_h.once[1].events, scale_h.min, scale_h.max)>>]
    /\ UNCHANGED <<smooth_h, gaps_h, mapper_h, program>>

NextScale == ScaleOnce \/ ScaleAgain

SpecScale == InitScale /\ [][NextScale]_vars

(***************************************************************************)
(* _smooth_pitch_index folded over arbitrary raw indices of the table      *)
(***************************************************************************)
InitSmooth ==
    /\ smooth_h = [pc |-> "fold", previous_idx |-> <<>>, base_idx |-> <<>>,
                   before |-> <<>>]
    /\ scale_h = Off
    /\ gaps_h = Off
    /\ mapper_h = Off
    /\ ProgramOff

\* one step of the fold of lines 231-241 with raw index base_idx
SmoothStep ==
    \E base_idx \in 0..(TotalNotes - 1) :
        /\ smooth_h.pc = "fold"
        /\ smooth_h' = [pc |-> "fold",
                        previous_idx |-> <<SmoothPitchIndex(base_idx, smooth_h.previous_idx)>>,
                        base_idx |-> <<base_idx>>,
                        before |-> smooth_h.previous_idx]
        /\ UNCHANGED <<scale_h, gaps_h, mapper_h, program>>

NextSmooth == SmoothStep

SpecSmooth == InitSmooth /\ [][NextSmooth]_vars

(***************************************************************************)
(* _fill_gaps on start-sorted note lists                                   *)
(***************************************************************************)
MaxGapNotes == 3

GapStarts == {RZero, Rat(1, 5), Rat(1, 2), Rat(4, 5), Rat(3, 2), RInt(4)}

GapNotes ==
    {NoteEvent(st, Rat(1, 2), MidiToFrequency(m), Rat(1, 2), "sine") :
        st \in GapStarts, m \in {ROOT_MIDI, ROOT_MIDI + 19}}

IsStartSorted(notes) ==
    \A i \in 1..(Len(notes) - 1) : RLe(notes[i].start, notes[i + 1].start)

GapInputs == {n \in SeqsOf(GapNotes, 0, MaxGapNotes) : IsStartSorted(n)}

GapBeats == {Rat(11, 20), Rat(1, 2), RInt(1)}

InitGaps ==
    /\ gaps_h \in {[pc |-> "input", notes |-> n, beat |-> b,
                    filled |-> <<>>, inserted |-> <<>>] :
                        n \in GapInputs, b \in GapBeats}
    /\ scale_h = Off
    /\ smooth_h = Off
    /\ mapper_h = Off
    /\ ProgramOff

CallFillGaps ==
    /\ gaps_h.pc = "input"
    /\ LET r == FillGapsTrace(gaps_h.notes, gaps_h.beat)
       IN  gaps_h' = [gaps_h EXCEPT !.pc = "done",
                                    !.filled = FillGaps(gaps_h.notes, gaps_h.beat),
                                    !.inserted = r.inserted]
    /\ UNCHANGED <<scale_h, smooth_h, mapper_h, program>>

NextGaps == CallFillGaps

SpecGaps == InitGaps /\ [][NextGaps]_vars

(***************************************************************************)
(* notes_from_messages on message lists in any order                       *)
(***************************************************************************)
MaxMessages == 3

Message(content, bot, author_id, webhook_id, is_system, created_at) ==
    [content |-> content, bot |-> bot, author_id |-> author_id,
     webhook_id |-> webhook_id, is_system |-> is_system,
     created_at |-> created_at]

\* "Hi!", "ok", "  ", "", "beep", "A?" from users, a bot, a webhook, the system
MessagePool ==
    {Message(<<72, 105, 33>>, FALSE, 3, <<>>, "no", RZero),
     Message(<<111, 107>>, FALSE, 4, <<>>, "no", RInt(1)),
     Message(<<32, 32>>, FALSE, 0, <<>>, "no", RInt(30)),
     Message(<<>>, FALSE, 3, <<>>, "no", RInt(2)),
     Message(<<98, 101, 101, 112>>, TRUE, 9, <<>>, "no", RInt(3)),
     Message(<<111, 107>>, FALSE, 4, <<7>>, "no", RInt(1)),
     Message(<<72, 105, 33>>, FALSE, 0, <<>>, "yes", RZero),
     Message(<<65, 63>>, FALSE, 5, <<>>, "TypeError", RInt(3))}

MessageLists == SeqsOf(MessagePool, 0, MaxMessages)

\* 0.55 is the default and what /compose passes
Beats == {Rat(11, 20), RInt(2)}

InitMapper ==
    /\ mapper_h \in {[pc |-> "input", messages |-> m, beat |-> b,
                      steps |-> <<>>, layered |-> <<>>, fillers |-> <<>>,
                      pad |-> <<>>, notes |-> <<>>] :
                        m \in MessageLists, b \in Beats}
    /\ scale_h = Off
    /\ smooth_h = Off
    /\ gaps_h = Off
    /\ ProgramOff

\* notes_from_messages, with what each of its stages has made: the fold
\* (steps), lines 243-250 (layered), the fillers of line 252 and the pad of
\* line 253
CallNotesFromMessages ==
    /\ mapper_h.pc = "input"
    /\ \E layered \in {Layered(PrimaryLine(mapper_h.messages, mapper_h.beat), 1)} :
        \E trace \in {FillGapsTrace(layered, mapper_h.beat)} :
            mapper_h' = [mapper_h EXCEPT
                !.pc = "done",
                !.steps = PrimarySteps(mapper_h.messages, mapper_h.beat),
                !.layered = layered,
                !.fillers = trace.inserted,
                !.pad = BackgroundPad(trace.filled),
                !.notes = NotesFromMessages(mapper_h.messages, mapper_h.beat)]
    /\ UNCHANGED <<scale_h, smooth_h, gaps_h, program>>

NextMapper == CallNotesFromMessages

SpecMapper == InitMapper /\ [][NextMapper]_vars

(***************************************************************************)
(* The program: a /compose interaction, or a direct call of                *)
(* render_notes_to_wav (bot.music exports it)                              *)
(***************************************************************************)
MaxHistory == 2

\* fluidsynth is imported only after numpy and pretty_midi (lines 12-22)
Configs ==
    {c \in [soundfont : BOOLEAN, midi_libs : BOOLEAN, fluidsynth : BOOLEAN] :
        c.fluidsynth => c.midi_libs}

IsOldestFirst(messages) ==
    \A i \in 1..(Len(messages) - 1) :
        RLe(messages[i].created_at, messages[i + 1].created_at)

\* channel.history(limit=100, oldest_first=True)
Histories == {h \in SeqsOf(MessagePool, 0, MaxHistory) : IsOldestFirst(h)}

Outcomes == {"ok", "raise"}

\* peak levels of a mix in tenths of a dBFS: silent, quiet, at the target,
\* louder than the target, full scale
PeakLevels == {NegInf, -300, -60, TargetPeak, -10, 0}

ComposeBeat == Rat(11, 20)

ComposeMin == RInt(20)

ComposeMax == RInt(35)

Init ==
    /\ scale_h = Off
    /\ smooth_h = Off
    /\ gaps_h = Off
    /\ mapper_h = Off
    /\ cfg \in Configs
    /\ \/ caller = "compose" /\ channel \in {"none", "text", "other"}
       \/ caller = "api" /\ channel = "none"
    /\ pc = "start"
    /\ history = <<>>
    /\ events = <<>>
    /\ call = <<>>
    /\ result = <<>>
    /\ responses = <<>>
    /\ followups = <<>>
    /\ loop = Off

\* lines 23-25
ComposeNoChannel ==
    /\ caller = "compose" /\ pc = "start" /\ channel = "none"
    /\ responses' = Append(responses, "I need a channel to work with.")
    /\ pc' = "done"
    /\ UNCHANGED <<harness, loop, cfg, caller, channel, history, events, call, result, followups>>

\* line 27
ComposeDefer ==
    /\ caller = "compose" /\ pc = "start" /\ channel # "none"
    /\ responses' = Append(responses, "defer")
    /\ pc' = "deferred"
    /\ UNCHANGED <<harness, loop, cfg, caller, channel, history, events, call, result, followups>>

\* lines 29-41 and 149-156: the history arrives, notes are mapped, and either
\* the notice is sent or the render is handed to a worker thread
ComposeFetched ==
    /\ caller = "compose" /\ pc = "deferred"
    /\ \E h \in (IF channel = "text" THEN Histories ELSE {<<>>}) :
        /\ history' = h
        /\ \E mapped \in {NotesFromMessages(h, ComposeBeat)} :
            /\ events' = mapped
            /\ IF NothingToCompose(mapped)
               THEN /\ followups' = Append(followups, "Nothing melodic to build yet")
                    /\ pc' = "done"
                    /\ call' = call
               ELSE /\ call' = <<[events |-> mapped, min |-> ComposeMin,
                                  max |-> ComposeMax]>>
                    /\ pc' = "rendering"
                    /\ followups' = followups
    /\ UNCHANGED <<harness, loop, cfg, caller, channel, result, responses>>

\* a direct call render_notes_to_wav(events, min_duration, max_duration)
ApiCall ==
    /\ caller = "api" /\ pc = "start"
    /\ \E e \in ScaleInputs, b \in ScaleBounds :
        call' = <<[events |-> e, min |-> b[1], max |-> b[2]]>>
    /\ pc' = "rendering"
    /\ UNCHANGED <<harness, loop, cfg, caller, channel, history, events, result, responses, followups>>

\* render_notes_to_wav runs (for /compose, on the worker thread)
Render ==
    /\ pc = "rendering"
    /\ \E scaled \in {ScaleEvents(call[1].events, call[1].min, call[1].max)} :
        \E so \in Outcomes, oo \in Outcomes, p \in PeakLevels :
            result' = <<RenderScaled(scaled, SamplerResult(cfg, so), oo, p)>>
    /\ pc' = "rendered"
    /\ UNCHANGED <<harness, loop, cfg, caller, channel, history, events, call, responses, followups>>

\* faulty variant: a render that raised ends the command without a notice
ComposeFollowupSilentOnError ==
    /\ caller = "compose" /\ pc = "rendered"
    /\ followups' = IF result[1].status = "error" THEN followups
                    ELSE Append(followups, "symphcord_composition.wav")
    /\ pc' = "done"
    /\ UNCHANGED <<harness, loop, cfg, caller, channel, history, events, call, result, responses>>

\* lines 42-57
ComposeFollowup ==
    /\ caller = "compose" /\ pc = "rendered"
    /\ followups' = Append(followups,
            IF result[1].status = "error" THEN "Couldn't render that tune"
            ELSE "symphcord_composition.wav")
    /\ pc' = "done"
    /\ UNCHANGED <<harness, loop, cfg, caller, channel, history, events, call, result, responses>>

\* the direct call returns or raises
ApiReturn ==
    /\ caller = "api" /\ pc = "rendered"
    /\ pc' = "done"
    /\ UNCHANGED <<harness, loop, cfg, caller, channel, history, events, call, result, responses, followups>>

Next ==
    \/ ComposeNoChannel
    \/ ComposeDefer
    \/ ComposeFetched
    \/ ApiCall
    \/ Render
    \/ ComposeFollowup
    \/ ApiReturn

Spec == Init /\ [][Next]_vars

(***************************************************************************)
(* A /compose interaction that runs on: the history fetch returns, the     *)
(* worker thread runs the render to its end (its loops are over finite     *)
(* lists), and the event loop resumes the coroutine.                       *)
(***************************************************************************)
InitCompose == Init /\ caller = "compose"

NextCompose ==
    \/ ComposeNoChannel
    \/ ComposeDefer
    \/ ComposeFetched
    \/ Render
    \/ ComposeFollowup

SpecCompose ==
    /\ InitCompose
    /\ [][NextCompose]_vars
    /\ WF_vars(ComposeFetched)
    /\ WF_vars(Render)
    /\ WF_vars(ComposeFollowup)

(***************************************************************************)
(* Two /compose interactions on one event loop.  A coroutine step (the     *)
(* code between two awaits) is one action of the loop; a render handed to  *)
(* asyncio.to_thread advances on its own worker thread, step by step,      *)
(* between any two steps of the loop or of the other worker.  Objects are  *)
(* entries of loop.heap; a render reaches its lists and buffers only       *)
(* through their addresses.                                                *)
(***************************************************************************)
Invocations == {1, 2}

\* where Python puts a newly built list, AudioSegment or BytesIO
FreshObjectReused(heap) == 1

FreshObject(heap) == Len(heap) + 1

\* the heap after obj was written at addr
Store(heap, addr, obj) ==
    IF addr = Len(heap) + 1 THEN Append(heap, obj)
    ELSE [heap EXCEPT ![addr] = obj]

Object(owner, kind, value) == [owner |-> owner, kind |-> kind, value |-> value]

\* what channel.history returns in the two interactions
OverlapHistories ==
    {<<Message(<<98, 101, 101, 112>>, TRUE, 9, <<>>, "no", RInt(3))>>,
     <<Message(<<72, 105, 33>>, FALSE, 3, <<>>, "no", RZero)>>,
     <<Message(<<72, 105, 33>>, FALSE, 3, <<>>, "no", RZero),
       Message(<<111, 107>>, FALSE, 4, <<>>, "no", RInt(1))>>}

\* a quiet mix
OverlapPeaks == {-60}

\* the SoundFont path ready to run, and not set up at all
OverlapConfigs ==
    {[soundfont |-> b, midi_libs |-> b, fluidsynth |-> b] : b \in BOOLEAN}

NewInvocation ==
    [pc |-> "start", worker |-> "none", history |-> <<>>,
     events_at |-> <<>>, scaled_at |-> <<>>, segment_at |-> <<>>,
     buffer_at |-> <<>>, picks |-> <<>>, touched |-> {},
     result |-> <<>>, responses |-> <<>>, followups |-> <<>>]

InitOverlap ==
    /\ scale_h = Off
    /\ smooth_h = Off
    /\ gaps_h = Off
    /\ mapper_h = Off
    /\ cfg \in OverlapConfigs
    /\ caller = "compose"
    /\ channel = "text"
    /\ pc = "off"
    /\ history = <<>>
    /\ events = <<>>
    /\ call = <<>>
    /\ result = <<>>
    /\ responses = <<>>
    /\ followups = <<>>
    /\ loop = [pc |-> "running", heap |-> <<>>,
               inv |-> [i \in Invocations |-> NewInvocation]]

OverlapUnchanged ==
    UNCHANGED <<harness, cfg, caller, channel, pc, history, events, call,
                result, responses, followups>>

\* composer.py line 27, on the event loop
LoopDefer(i) ==
    /\ loop.pc = "running" /\ loop.inv[i].pc = "start"
    /\ loop' = [loop EXCEPT !.inv[i].pc = "deferred",
                            !.inv[i].responses = Append(@, "defer")]
    /\ OverlapUnchanged

\* composer.py lines 29-41, on the event loop: the history arrives, the notes
\* are built in a list of their own, and the render goes to a worker thread
LoopFetched(i) ==
    /\ loop.pc = "running" /\ loop.inv[i].pc = "deferred"
    /\ \E h \in OverlapHistories :
        \E mapped \in {NotesFromMessages(h, ComposeBeat)} :
            IF NothingToCompose(mapped)
            THEN loop' = [loop EXCEPT
                    !.inv[i].history = h,
                    !.inv[i].pc = "done",
                    !.inv[i].followups = Append(@, "Nothing melodic to build yet")]
            ELSE \E at \in {FreshObject(loop.heap)} :
                 loop' = [loop EXCEPT
                    !.heap = Store(@, at, Object(i, "events", mapped)),
                    !.inv[i].history = h,
                    !.inv[i].events_at = <<at>>,
                    !.inv[i].touched = @ \cup {at},
                    !.inv[i].pc = "awaiting",
                    !.inv[i].worker = "queued"]
    /\ OverlapUnchanged

\* synthesis.py line 310, on the worker thread: the scaled notes are a new list
WorkerScale(i) ==
    /\ loop.pc = "running" /\ loop.inv[i].worker = "queued"
    /\ \E at \in {FreshObject(loop.heap)} :
        loop' = [loop EXCEPT
            !.heap = Store(@, at, Object(i, "scaled",
                        ScaleEvents(loop.heap[loop.inv[i].events_at[1]].value,
                                    ComposeMin, ComposeMax))),
            !.inv[i].scaled_at = <<at>>,
            !.inv[i].touched = @ \cup {at},
            !.inv[i].worker = "scaled"]
    /\ OverlapUnchanged

\* synthesis.py lines 311-335, on the worker thread: the sampler attempt or
\* the oscillator mix and its normalization, into a new AudioSegment
WorkerMix(i) ==
    /\ loop.pc = "running" /\ loop.inv[i].worker = "scaled"
    /\ \E so \in Outcomes, oo \in Outcomes, p \in OverlapPeaks :
        \E at \in {FreshObject(loop.heap)} :
            loop' = [loop EXCEPT
                !.heap = Store(@, at, Object(i, "segment",
                            RenderScaled(loop.heap[loop.inv[i].scaled_at[1]].value,
                                         SamplerResult(cfg, so), oo, p))),
                !.inv[i].picks = <<[sampler |-> so, oscillator |-> oo, peak |-> p]>>,
                !.inv[i].segment_at = <<at>>,
                !.inv[i].touched = @ \cup {at},
                !.inv[i].worker = "mixed"]
    /\ OverlapUnchanged

\* synthesis.py lines 261-264 and 337-340, on the worker thread: the export
\* into a new BytesIO, which is what the call returns (or the exception)
WorkerExport(i) ==
    /\ loop.pc = "running" /\ loop.inv[i].worker = "mixed"
    /\ \E at \in {FreshObject(loop.heap)} :
        \E heap \in {Store(loop.heap, at,
                        Object(i, "buffer", loop.heap[loop.inv[i].segment_at[1]].value))} :
            loop' = [loop EXCEPT
                !.heap = heap,
                !.inv[i].buffer_at = <<at>>,
                !.inv[i].touched = @ \cup {at},
                !.inv[i].result = <<heap[at].value>>,
                !.inv[i].worker = "finished"]
    /\ OverlapUnchanged

\* composer.py lines 42-57, on the event loop once the worker has finished
LoopFollowup(i) ==
    /\ loop.pc = "running"
    /\ loop.inv[i].pc = "awaiting" /\ loop.inv[i].worker = "finished"
    /\ loop' = [loop EXCEPT
            !.inv[i].pc = "done",
            !.inv[i].followups = Append(@,
                IF loop.inv[i].result[1].status = "error"
                THEN "Couldn't render that tune"
                ELSE "symphcord_composition.wav")]
    /\ OverlapUnchanged

NextOverlap ==
    \E i \in Invocations :
        \/ LoopDefer(i)
        \/ LoopFetched(i)
        \/ WorkerScale(i)
        \/ WorkerMix(i)
        \/ WorkerExport(i)
        \/ LoopFollowup(i)

SpecOverlap == InitOverlap /\ [][NextOverlap]_vars

(***************************************************************************)
(* Properties                                                              *)
(***************************************************************************)
Rendered == result # <<>>

\* render_notes_to_wav returned the oscillator path's buffer
OscillatorDone ==
    Rendered /\ result[1].status = "ok" /\ result[1].path = "oscillator"

\* render_notes_to_wav returned the sampler's buffer
SamplerDone ==
    Rendered /\ result[1].status = "ok" /\ result[1].path = "sampler"

\* C1 as stated: after the oscillator path, a mix whose peak was finite and
\* louder than -1.5 dBFS comes back with a peak of at most -1.5 dBFS.
C1_LoudMixAttenuated ==
    (OscillatorDone /\ IsFinite(result[1].mix_peak)
        /\ result[1].mix_peak > TargetPeak)
    => result[1].peak <= TargetPeak

\* C1 amended: after the oscillator path, a finite peak quieter than
\* -1.5 dBFS is raised to exactly -1.5 dBFS, and a finite peak at or above
\* -1.5 dBFS is returned unchanged (a louder mix is not attenuated).
C1_QuietMixRaisedLoudMixKept ==
    (OscillatorDone /\ IsFinite(result[1].mix_peak))
    => /\ result[1].mix_peak < TargetPeak => result[1].peak = TargetPeak
       /\ result[1].mix_peak >= TargetPeak => result[1].peak = result[1].mix_peak

C1_Witness ==
    /\ OscillatorDone
    /\ IsFinite(result[1].mix_peak)
    /\ result[1].mix_peak > TargetPeak
    /\ result[1].peak > TargetPeak

\* C2 as stated: the buffer of a successful sampler render has gone through
\* the peak normalization step before it is returned.
C2_SamplerBufferNormalized == SamplerDone => result[1].normalized

\* C2 amended: peak normalization runs exactly when the oscillator path
\* produced the audio; the sampler's buffer is returned as the sampler
\* exported it, its peak unchanged.
C2_OnlyOscillatorNormalized ==
    (Rendered /\ result[1].status = "ok")
    => /\ result[1].normalized <=> result[1].path = "oscillator"
       /\ result[1].path = "sampler" => result[1].peak = result[1].mix_peak

C2_Witness ==
    /\ SamplerDone
    /\ ~result[1].normalized
    /\ result[1].mix_peak < TargetPeak
    /\ result[1].peak = result[1].mix_peak

\* C3: for a non-empty note list, every way the sampler path can fail
\* (not configured, library missing, an exception while rendering) ends in
\* one run of the oscillator path, and render_notes_to_wav fails only when
\* the oscillator path fails.
C3_SamplerFailureFallsBack ==
    (Rendered /\ call[1].events # <<>>)
    => /\ result[1].sampler \in {"skipped", "unavailable", "raised"}
            => result[1].oscillator \in {"ok", "raised"}
       /\ result[1].sampler = "ok" => result[1].oscillator = "skipped"
       /\ result[1].status = "error" <=> result[1].oscillator = "raised"
       /\ result[1].status = "error" => result[1].error = "oscillator"

C3_Witness ==
    /\ Rendered
    /\ result[1].sampler = "raised"
    /\ result[1].oscillator = "ok"
    /\ result[1].status = "ok"

\* C4: no rendering path is entered with zero notes.  A call of
\* render_notes_to_wav on an empty list ends with "No events to render."
\* before either path runs, and /compose sends its notice without calling
\* render_notes_to_wav when notes_from_messages returned no notes.
C4_NoPathEnteredWithoutNotes ==
    /\ (Rendered /\ call[1].events = <<>>)
        => /\ result[1].status = "error"
           /\ result[1].error = "No events to render."
           /\ result[1].sampler = "skipped"
           /\ result[1].oscillator = "skipped"
    /\ (Rendered /\ (result[1].sampler # "skipped" \/ result[1].oscillator # "skipped"))
        => result[1].scaled # <<>>
    /\ (caller = "compose" /\ call # <<>>) => call[1].events # <<>>
    /\ (caller = "compose" /\ pc = "done" /\ responses = <<"defer">> /\ events = <<>>)
        => /\ call = <<>>
           /\ result = <<>>
           /\ followups = <<"Nothing melodic to build yet">>

C4_Witness ==
    /\ Rendered
    /\ call[1].events = <<>>
    /\ result[1].error = "No events to render."

\* every note has start >= 0 and duration > 0
WellTimed(notes) ==
    \A i \in 1..Len(notes) :
        RLe(RZero, notes[i].start) /\ RLt(RZero, notes[i].duration)

\* C5: for a non-empty list of notes with start >= 0 and duration > 0 and
\* bounds 0 <= min <= max (seconds), the total length of the scaled list
\* lies in [min, max]; it is the duration render_notes_to_wav reports, and
\* for /compose it lies in [20, 35].
C5_TotalLengthWithinBounds ==
    (Rendered /\ call[1].events # <<>> /\ WellTimed(call[1].events)
        /\ RLe(RZero, call[1].min) /\ RLe(call[1].min, call[1].max))
    => /\ RLe(call[1].min, TotalLength(result[1].scaled))
       /\ RLe(TotalLength(result[1].scaled), call[1].max)
       /\ result[1].duration = TotalLength(result[1].scaled)
       /\ caller = "compose"
            => /\ RLe(RInt(20), result[1].duration)
               /\ RLe(result[1].duration, RInt(35))

C5_Witness ==
    /\ caller = "compose"
    /\ Rendered
    /\ result[1].status = "ok"
    /\ RLt(TotalLength(call[1].events), ComposeMin)
    /\ result[1].duration = ComposeMin

\* C6: _scale_events leaves a non-empty list whose total length is already
\* in [min, max] unchanged, and applying it a second time with the same
\* bounds returns the list the first application returned.
C6_ScaleEventsIdempotent ==
    /\ (scale_h.pc \in {"once", "twice"} /\ scale_h.events # <<>>
            /\ RLe(scale_h.min, TotalLength(scale_h.events))
            /\ RLe(TotalLength(scale_h.events), scale_h.max))
        => scale_h.once[1].events = scale_h.events
    /\ (scale_h.pc = "twice" /\ scale_h.events # <<>>)
        => scale_h.twice[1] = scale_h.once[1]

C6_Witness ==
    /\ scale_h.pc = "twice"
    /\ scale_h.events # <<>>
    /\ scale_h.once[1].events # scale_h.events
    /\ scale_h.twice[1].events = scale_h.once[1].events

\* C7: consecutive primary notes start between 1 and 2.5 beats apart,
\* whatever the message timestamps are.
C7_PrimarySpacing ==
    mapper_h.pc = "done"
    => \A i \in 1..(Len(mapper_h.steps) - 1) :
        LET gap == RSub(mapper_h.steps[i + 1].note.start, mapper_h.steps[i].note.start)
        IN  /\ RLe(mapper_h.beat, gap)
            /\ RLe(gap, RMul(Rat(5, 2), mapper_h.beat))

C7_Witness ==
    /\ mapper_h.pc = "done"
    /\ \E i \in 1..(Len(mapper_h.steps) - 1) :
        /\ mapper_h.steps[i + 1].message.created_at = mapper_h.steps[i].message.created_at
        /\ RSub(mapper_h.steps[i + 1].note.start, mapper_h.steps[i].note.start)
            = mapper_h.beat
    /\ \E i \in 1..(Len(mapper_h.steps) - 1) :
        RSub(mapper_h.steps[i + 1].note.start, mapper_h.steps[i].note.start)
            = RMul(Rat(5, 2), mapper_h.beat)

\* C8: the index pitch smoothing chooses is at most 2 scale-table positions
\* away from the previous note's index, for every raw index and every
\* previous index of the table.
C8_SmoothStepAtMostTwo ==
    smooth_h.before # <<>>
    => Abs(smooth_h.previous_idx[1] - smooth_h.before[1]) <= 2

C8_Witness ==
    /\ smooth_h.before # <<>>
    /\ Abs(smooth_h.base_idx[1] - smooth_h.before[1]) = 9
    /\ Abs(smooth_h.previous_idx[1] - smooth_h.before[1]) = 2

\* C9: every filler _fill_gaps inserts between consecutive notes prev and
\* curr of a start-sorted list starts strictly between them, and a pair at
\* most 1.4 beats apart gets no filler.
C9_FillerStrictlyBetween ==
    gaps_h.pc = "done"
    => /\ \A k \in 1..Len(gaps_h.inserted) :
            LET ins == gaps_h.inserted[k]
            IN  /\ RLt(ins.prev.start, ins.filler.start)
                /\ RLt(ins.filler.start, ins.curr.start)
                /\ RLt(RMul(Rat(14, 10), gaps_h.beat),
                       RSub(ins.curr.start, ins.prev.start))
                /\ \E j \in 1..Len(gaps_h.filled) : gaps_h.filled[j] = ins.filler
       /\ Len(gaps_h.inserted) =
            Cardinality({i \in 1..(Len(gaps_h.notes) - 1) :
                RLt(RMul(Rat(14, 10), gaps_h.beat),
                    RSub(gaps_h.notes[i + 1].start, gaps_h.notes[i].start))})
       /\ Len(gaps_h.filled) = Len(gaps_h.notes) + Len(gaps_h.inserted)

C9_Witness ==
    /\ gaps_h.pc = "done"
    /\ Len(gaps_h.notes) = 3
    /\ Len(gaps_h.inserted) = 1
    /\ RLt(gaps_h.notes[1].start, gaps_h.notes[2].start)
    /\ RLt(gaps_h.notes[2].start, gaps_h.notes[3].start)

\* the number of places of the sequence s that hold x
Occurrences(s, x) == Cardinality({i \in 1..Len(s) : s[i] = x})

\* C10: the primary line has exactly one note per eligible message
\* (non-empty content, author not a bot, no webhook id, not a system
\* message), none for any other message, in non-decreasing start order.
C10_OneNotePerEligibleMessage ==
    mapper_h.pc = "done"
    => /\ \A m \in MessagePool :
            Cardinality({i \in 1..Len(mapper_h.steps) : mapper_h.steps[i].message = m})
            = IF m.content # <<>> /\ ~m.bot /\ m.webhook_id = <<>>
                    /\ m.is_system # "yes"
              THEN Occurrences(mapper_h.messages, m)
              ELSE 0
       /\ \A i \in 1..(Len(mapper_h.steps) - 1) :
            /\ RLe(mapper_h.steps[i].note.start, mapper_h.steps[i + 1].note.start)
            /\ RLe(mapper_h.steps[i].message.created_at,
                   mapper_h.steps[i + 1].message.created_at)

C10_Witness ==
    /\ mapper_h.pc = "done"
    /\ Len(mapper_h.messages) = 3
    /\ Len(mapper_h.steps) = 2
    /\ RLt(mapper_h.messages[3].created_at, mapper_h.messages[1].created_at)
    /\ mapper_h.steps[1].message = mapper_h.messages[3]

\* C11: _scale_events keeps the order of starts (a.start <= b.start before
\* implies a.start <= b.start after, also when the list is compressed to
\* max_duration) and leaves every note's frequency, amplitude and timbre as
\* they were.
C11_ScalingKeepsOrderAndTone ==
    (scale_h.pc \in {"once", "twice"} /\ scale_h.events # <<>>)
    => LET before == scale_h.events
           after == scale_h.once[1].events
       IN  /\ Len(after) = Len(before)
           /\ \A i, j \in 1..Len(before) :
                RLe(before[i].start, before[j].start)
                    => RLe(after[i].start, after[j].start)
           /\ \A i \in 1..Len(before) :
                /\ after[i].frequency = before[i].frequency
                /\ after[i].amplitude = before[i].amplitude
                /\ after[i].instrument = before[i].instrument

C11_Witness ==
    /\ scale_h.pc = "once"
    /\ Len(scale_h.events) = 2
    /\ RLt(scale_h.max, TotalLength(scale_h.events))
    /\ RLt(scale_h.events[2].start, scale_h.events[1].start)
    /\ RLt(scale_h.once[1].events[2].start, scale_h.once[1].events[1].start)
    /\ scale_h.once[1].events[1].start # scale_h.events[1].start
    /\ scale_h.events[1].frequency # scale_h.events[2].frequency

\* what render_notes_to_wav returns for invocation i when it runs alone on
\* the history and with the outcomes invocation i had
AloneResult(i) ==
    RenderNotesToWav(NotesFromMessages(loop.inv[i].history, ComposeBeat),
                     ComposeMin, ComposeMax, cfg,
                     loop.inv[i].picks[1].sampler,
                     loop.inv[i].picks[1].oscillator,
                     loop.inv[i].picks[1].peak)

\* C12: when two /compose invocations overlap, with their renders on worker
\* threads and the event loop dispatching in between, every note list and
\* audio buffer a render reads or writes is its own invocation's, and each
\* invocation's result is the result of running it alone.
C12_OverlappingRendersIndependent ==
    loop.pc = "running"
    => /\ loop.inv[1].touched \cap loop.inv[2].touched = {}
       /\ \A i \in Invocations :
            /\ \A at \in loop.inv[i].touched : loop.heap[at].owner = i
            /\ loop.inv[i].result # <<>> => loop.inv[i].result[1] = AloneResult(i)

C12_Witness ==
    /\ loop.pc = "running"
    /\ loop.inv[1].result # <<>>
    /\ loop.inv[2].result # <<>>
    /\ loop.inv[1].result[1].status = "ok"
    /\ loop.inv[2].result[1].status = "ok"
    /\ loop.inv[1].result[1] # loop.inv[2].result[1]
    /\ loop.inv[1].scaled_at[1] < loop.inv[2].events_at[1]
    /\ loop.inv[2].buffer_at[1] < loop.inv[1].segment_at[1]

\* start >= 0, duration > 0, frequency > 0 and 0 < amplitude <= 1
WellFormed(note) ==
    /\ RLe(RZero, note.start)
    /\ RLt(RZero, note.duration)
    /\ note.frequency > 0
    /\ RLt(RZero, note.amplitude)
    /\ RLe(note.amplitude, RInt(1))

\* the number of notes lines 244-250 append for the primary notes before the
\* one at 0-based index idx
RECURSIVE LayerOffset(_)
LayerOffset(idx) ==
    IF idx = 0 THEN 0
    ELSE LayerOffset(idx - 1) + 2
            + (IF (idx - 1) % 2 = 0 THEN 1 ELSE 0)
            + (IF (idx - 1) % 3 = 0 THEN 1 ELSE 0)

\* the places of the layered list that hold primary notes
PrimaryPlaces(count) == {LayerOffset(idx) + 1 : idx \in 0..(count - 1)}

\* C13: every note notes_from_messages returns has start >= 0, duration > 0,
\* frequency > 0 and 0 < amplitude <= 1; primary amplitudes are at most 0.9,
\* harmonic amplitudes at most 0.55 and filler amplitudes at most 0.45.
C13_NotesWellFormed ==
    mapper_h.pc = "done"
    => /\ \A k \in 1..Len(mapper_h.notes) : WellFormed(mapper_h.notes[k])
       /\ \A i \in 1..Len(mapper_h.steps) :
            /\ WellFormed(mapper_h.steps[i].note)
            /\ RLe(mapper_h.steps[i].note.amplitude, Rat(9, 10))
       /\ \A k \in 1..Len(mapper_h.layered) :
            /\ WellFormed(mapper_h.layered[k])
            /\ k \notin PrimaryPlaces(Len(mapper_h.steps))
                => RLe(mapper_h.layered[k].amplitude, Rat(55, 100))
       /\ \A k \in 1..Len(mapper_h.fillers) :
            /\ WellFormed(mapper_h.fillers[k].filler)
            /\ RLe(mapper_h.fillers[k].filler.amplitude, Rat(45, 100))
       /\ \A k \in 1..Len(mapper_h.pad) : WellFormed(mapper_h.pad[k])
       /\ Len(mapper_h.notes)
            = Len(mapper_h.layered) + Len(mapper_h.fillers) + Len(mapper_h.pad)

C13_Witness ==
    /\ mapper_h.pc = "done"
    /\ Len(mapper_h.steps) = 3
    /\ Len(mapper_h.fillers) > 0
    /\ Len(mapper_h.pad) = 3
    /\ \E i \in 1..3 : mapper_h.steps[i].message.content = <<32, 32>>
    /\ \E i \in 1..3 : RLt(Rat(28, 100), mapper_h.steps[i].note.amplitude)

\* the semitone shifts of the harmonics of the primary note at 0-based idx
ShiftsAt(idx) ==
    <<4>> \o (IF idx % 2 = 0 THEN <<7>> ELSE <<>>)
          \o (IF idx % 3 = 0 THEN <<12>> ELSE <<>>)

\* C14: the primary note at 0-based index i is followed by its harmonics: +4
\* semitones always, +7 exactly when i is even, +12 exactly when i is
\* divisible by 3, each starting with its source note, so between 1 and 3
\* per primary note; one eligible message gives 1 primary note, 3 harmonics,
\* no filler and 3 pad notes.
C14_HarmonicsPerPrimaryNote ==
    mapper_h.pc = "done"
    => /\ Len(mapper_h.layered) = LayerOffset(Len(mapper_h.steps))
       /\ \A idx \in 0..(Len(mapper_h.steps) - 1) :
            /\ mapper_h.layered[LayerOffset(idx) + 1] = mapper_h.steps[idx + 1].note
            /\ LayerOffset(idx + 1) - LayerOffset(idx) - 1 = Len(ShiftsAt(idx))
            /\ Len(ShiftsAt(idx)) \in 1..3
            /\ \A h \in 1..Len(ShiftsAt(idx)) :
                /\ mapper_h.layered[LayerOffset(idx) + 1 + h].start
                    = mapper_h.steps[idx + 1].note.start
                /\ mapper_h.layered[LayerOffset(idx) + 1 + h].frequency
                    = MidiToFrequency(SemitoneOf(mapper_h.steps[idx + 1].note.frequency)
                                      + ShiftsAt(idx)[h])
       /\ Len(mapper_h.steps) = 1
            => /\ Len(mapper_h.layered) = 4
               /\ mapper_h.fillers = <<>>
               /\ Len(mapper_h.pad) = 3
               /\ Len(mapper_h.notes) = 7

C14_Witness ==
    /\ mapper_h.pc = "done"
    /\ Len(mapper_h.steps) = 3
    /\ Len(mapper_h.layered) = 9
    /\ mapper_h.layered[5] = mapper_h.steps[2].note
    /\ mapper_h.layered[7] = mapper_h.steps[3].note

\* the follow-up /compose owes in the current state, once it is done
FollowupDue ==
    IF result = <<>> THEN "Nothing melodic to build yet"
    ELSE IF result[1].status = "error" THEN "Couldn't render that tune"
    ELSE "symphcord_composition.wav"

\* C15: a /compose that has deferred never has more than one follow-up, the
\* render is run at most once, and once the history fetch has returned the
\* command ends with exactly one follow-up: the notice when there were no
\* notes (no render started), the failure notice when the render raised, the
\* composition file otherwise.
C15_ExactlyOneFollowup ==
    /\ [](Len(followups) <= 1)
    /\ [](followups # <<>> => pc = "done" /\ followups = <<FollowupDue>>)
    /\ []((pc = "done" /\ responses = <<"defer">>)
            => /\ Len(followups) = 1
               /\ result = <<>> <=> events = <<>>)
    /\ [][result # <<>> => result' = result]_vars
    /\ (pc = "deferred") ~> (pc = "done" /\ Len(followups) = 1)

C15_Witness ==
    /\ caller = "compose"
    /\ pc = "done"
    /\ responses = <<"defer">>
    /\ result # <<>>
    /\ result[1].status = "error"
    /\ followups = <<"Couldn't render that tune">>


\* C16: at every step of the fold the index _smooth_pitch_index returns lies
\* in 0 .. len(SCALE_MIDI_NOTES) - 1, whatever raw index of the table it is
\* given and whether the previous index is none or any index of the table,
\* so SCALE_MIDI_NOTES[midi_idx] reads an element of the table and never
\* wraps around through a negative index.
C16_SmoothedIndexInsideTable ==
    smooth_h.previous_idx # <<>>
    => /\ smooth_h.previous_idx[1] >= 0
       /\ smooth_h.previous_idx[1] <= TotalNotes - 1
       /\ smooth_h.previous_idx[1] + 1 \in DOMAIN SCALE_MIDI_NOTES
       /\ ScaleMidiAt(smooth_h.previous_idx[1]) \in ROOT_MIDI..(ROOT_MIDI + 12 * Octaves - 1)

\* the nearest candidate of raw index 0 after the last index is one past the
\* table and is brought back to the last index
C16_Witness ==
    /\ smooth_h.before = <<TotalNotes - 1>>
    /\ smooth_h.base_idx = <<0>>
    /\ ClosestCandidate(0, TotalNotes - 1) = TotalNotes
    /\ smooth_h.previous_idx = <<TotalNotes - 1>>

=============================================================================
